---- MODULE Spec2Model ----
(***************************************************************************)
(* Model of go-fedinfo (src/fedinfo.go): the nodeInfoRoute handler, which  *)
(* resolves a domain to the software identity it reports through the       *)
(* two-hop nodeinfo discovery, and the TTL cache it consults.              *)
(*                                                                         *)
(* Strings of the request (the "domain" form value) are sequences of       *)
(* one-character strings, so that url.Parse is modelled by what it does.   *)
(* Time is an integer clock; one unit is half of the cache's TTL.          *)
(***************************************************************************)
EXTENDS Integers, Sequences, FiniteSets, TLC

\* ---------------------------------------------------------------- bounds
\* the clock runs from 0 to MaxTime
MaxTime == 3
\* the process is restarted at most MaxBoots times
MaxBoots == 1
\* a discovery document carries at most MaxLinks links
MaxLinks == 3

\* var cache = &Cache{TTL: 1*time.Hour}, in clock units
TTL == 2

\* the request handlers that can be running at once (one goroutine each)
Tasks == {"t1", "t2"}

\* ------------------------------------------------------------ data types
\* type Software struct { Name, Version string }
ZeroSoftware == [name |-> "", version |-> ""]

Software ==
    { ZeroSoftware,
      [name |-> "mastodon", version |-> "4.2.0"],
      [name |-> "pleroma", version |-> "2.6.0"] }

Schema20 == "http://nodeinfo.diaspora.software/ns/schema/2.0"

Schema21 == "http://nodeinfo.diaspora.software/ns/schema/2.1"

\* type Link struct { Rel, Href string }: the links a remote may serve
Link ==
    { [rel |-> Schema20, href |-> "u20"],
      [rel |-> Schema21, href |-> "u21"],
      [rel |-> Schema20, href |-> ""],
      [rel |-> "other", href |-> "ux"] }

RECURSIVE SeqsUpTo(_, _)
SeqsUpTo(S, n) ==
    IF n = 0 THEN { <<>> }
    ELSE LET shorter == SeqsUpTo(S, n - 1)
         IN  shorter \cup { Append(s, x) : s \in shorter, x \in S }

\* type WellKnownNodeInfo struct { Links []Link }: the decoded hop-1 bodies
WellKnownNodeInfo == { [links |-> s] : s \in SeqsUpTo(Link, MaxLinks) }

\* ------------------------------------------------- url.Parse (net/url)
\* The characters of the modelled inputs: letters that are no hex digits,
\* ':' '/' and '%' (never the start of a valid escape here).
Letters == { "h", "m", "n", "p" }

\* the "domain" form values a request can carry
Inputs ==
    { <<>>,                                   \* ""          (parameter absent)
      <<"m">>,                                \* "m"         bare domain
      <<"h", ":", "/", "/", "m", "/", "p">>,  \* "h://m/p"   scheme, host, path
      <<":", "m">>,                           \* ":m"        missing protocol scheme
      <<"%">>,                                \* "%"         invalid URL escape
      <<"h", ":", "/", "/", "m", ":", "p">>,  \* "h://m:p"   invalid port
      <<"h", ":">>,                           \* "h:"        scheme and nothing else
      <<"m", ":", "p">> }                     \* "m:p"       parsed as scheme m, opaque p

\* index of the first element of s satisfying "not a letter", 0 if none
FirstNonLetter(s) ==
    LET I == { i \in 1..Len(s) : s[i] \notin Letters }
    IN  IF I = {} THEN 0 ELSE CHOOSE i \in I : \A j \in I : i <= j

\* index of the first / last occurrence of c in s, 0 if none
IndexOf(s, c) ==
    LET I == { i \in 1..Len(s) : s[i] = c }
    IN  IF I = {} THEN 0 ELSE CHOOSE i \in I : \A j \in I : i <= j

LastIndexOf(s, c) ==
    LET I == { i \in 1..Len(s) : s[i] = c }
    IN  IF I = {} THEN 0 ELSE CHOOSE i \in I : \A j \in I : i >= j

HasPrefix(s, p) == Len(s) >= Len(p) /\ SubSeq(s, 1, Len(p)) = p

\* net/url getScheme: [err, scheme, rest]
GetScheme(raw) ==
    LET i == FirstNonLetter(raw)
    IN  IF i = 0 \/ raw[i] # ":"
        THEN [err |-> FALSE, scheme |-> <<>>, rest |-> raw]
        ELSE IF i = 1
             THEN [err |-> TRUE, scheme |-> <<>>, rest |-> <<>>]
             ELSE [err |-> FALSE, scheme |-> SubSeq(raw, 1, i - 1),
                   rest |-> SubSeq(raw, i + 1, Len(raw))]

\* net/url parseHost, for hosts without brackets: the text after the last
\* ':' must be digits only, and a '%' must start a valid escape
ValidHost(host) ==
    LET c == LastIndexOf(host, ":")
    IN  /\ (c = 0 \/ c = Len(host))
        /\ IndexOf(host, "%") = 0

\* a plausible slip: a parser that reports no error and keeps the text as path
UrlParseLenient(raw) == [err |-> FALSE, host |-> <<>>, path |-> raw]

\* net/url Parse: [err, host, path] (u.Host, u.Path)
UrlParse(raw) ==
    LET failed == [err |-> TRUE, host |-> <<>>, path |-> <<>>]
        g      == GetScheme(raw)
        rest   == g.rest
    IN  IF g.err THEN failed
        ELSE IF ~HasPrefix(rest, <<"/">>) /\ g.scheme # <<>>
        THEN \* rootless path after a scheme: kept in u.Opaque
             [err |-> FALSE, host |-> <<>>, path |-> <<>>]
        ELSE IF /\ ~HasPrefix(rest, <<"/">>)
                /\ LET slash == IndexOf(rest, "/")
                       seg   == IF slash = 0 THEN rest ELSE SubSeq(rest, 1, slash - 1)
                   IN  IndexOf(seg, ":") # 0
        THEN failed   \* first path segment in URL cannot contain colon
        ELSE IF /\ (g.scheme # <<>> \/ ~HasPrefix(rest, <<"/", "/", "/">>))
                /\ HasPrefix(rest, <<"/", "/">>)
        THEN LET after == SubSeq(rest, 3, Len(rest))
                 slash == IndexOf(after, "/")
                 auth  == IF slash = 0 THEN after ELSE SubSeq(after, 1, slash - 1)
                 path  == IF slash = 0 THEN <<>> ELSE SubSeq(after, slash, Len(after))
             IN  IF ~ValidHost(auth) \/ IndexOf(path, "%") # 0 THEN failed
                 ELSE [err |-> FALSE, host |-> auth, path |-> path]
        ELSE IF IndexOf(rest, "%") # 0 THEN failed   \* invalid URL escape
        ELSE [err |-> FALSE, host |-> <<>>, path |-> rest]

\* a plausible slip: the path is kept after the host
NormalizeKeepsPath(u) == u.host \o u.path

\* nodeInfoRoute, lines 153-157: the cache key and the host of hop 1
Normalize(u) == IF u.host = <<>> THEN u.path ELSE u.host

\* the normalized domains the modelled inputs lead to
Domains == { Normalize(UrlParse(i)) : i \in { j \in Inputs : ~UrlParse(j).err } }

\* ------------------------------------------------------------------ Cache
\* map update m[k] = v
MapPut(m, k, v) == [x \in DOMAIN m \cup {k} |-> IF x = k THEN v ELSE m[x]]

\* a plausible slip: an entry expires when its age reaches TTL (>= for >)
CacheGetExpiresEarly(D, A, key, t) ==
    IF key \in DOMAIN A
    THEN IF t - A[key] >= TTL
         THEN [sfw |-> ZeroSoftware, found |-> FALSE, Age |-> A]
         ELSE IF key \in DOMAIN D
              THEN [sfw |-> D[key], found |-> TRUE, Age |-> A]
              ELSE [sfw |-> ZeroSoftware, found |-> FALSE, Age |-> A]
    ELSE IF key \in DOMAIN D
         THEN [sfw |-> D[key], found |-> TRUE, Age |-> MapPut(A, key, t)]
         ELSE [sfw |-> ZeroSoftware, found |-> FALSE, Age |-> A]

\* a plausible slip: an entry without a timestamp is returned but not stamped
CacheGetNoStamp(D, A, key, t) ==
    IF key \in DOMAIN A
    THEN IF t - A[key] > TTL
         THEN [sfw |-> ZeroSoftware, found |-> FALSE, Age |-> A]
         ELSE IF key \in DOMAIN D
              THEN [sfw |-> D[key], found |-> TRUE, Age |-> A]
              ELSE [sfw |-> ZeroSoftware, found |-> FALSE, Age |-> A]
    ELSE IF key \in DOMAIN D
         THEN [sfw |-> D[key], found |-> TRUE, Age |-> A]
         ELSE [sfw |-> ZeroSoftware, found |-> FALSE, Age |-> A]

\* a plausible slip: the value is read without the ok of the map lookup, so
\* a key the cache never held is found, with the zero Software
CacheGetFindsAbsent(D, A, key, t) ==
    IF key \in DOMAIN A
    THEN IF t - A[key] > TTL
         THEN [sfw |-> ZeroSoftware, found |-> FALSE, Age |-> A]
         ELSE IF key \in DOMAIN D
              THEN [sfw |-> D[key], found |-> TRUE, Age |-> A]
              ELSE [sfw |-> ZeroSoftware, found |-> FALSE, Age |-> A]
    ELSE IF key \in DOMAIN D
         THEN [sfw |-> D[key], found |-> TRUE, Age |-> MapPut(A, key, t)]
         ELSE [sfw |-> ZeroSoftware, found |-> TRUE, Age |-> A]

\* a plausible slip: the timestamp is written before the entry is looked up,
\* so a key the cache never held gets one
CacheGetStampsAbsent(D, A, key, t) ==
    IF key \in DOMAIN A
    THEN IF t - A[key] > TTL
         THEN [sfw |-> ZeroSoftware, found |-> FALSE, Age |-> A]
         ELSE IF key \in DOMAIN D
              THEN [sfw |-> D[key], found |-> TRUE, Age |-> A]
              ELSE [sfw |-> ZeroSoftware, found |-> FALSE, Age |-> A]
    ELSE IF key \in DOMAIN D
         THEN [sfw |-> D[key], found |-> TRUE, Age |-> MapPut(A, key, t)]
         ELSE [sfw |-> ZeroSoftware, found |-> FALSE, Age |-> MapPut(A, key, t)]

\* a plausible slip: a hit renews the timestamp (a sliding expiry)
CacheGetRefreshes(D, A, key, t) ==
    IF key \in DOMAIN A
    THEN IF t - A[key] > TTL
         THEN [sfw |-> ZeroSoftware, found |-> FALSE, Age |-> A]
         ELSE IF key \in DOMAIN D
              THEN [sfw |-> D[key], found |-> TRUE, Age |-> MapPut(A, key, t)]
              ELSE [sfw |-> ZeroSoftware, found |-> FALSE, Age |-> A]
    ELSE IF key \in DOMAIN D
         THEN [sfw |-> D[key], found |-> TRUE, Age |-> MapPut(A, key, t)]
         ELSE [sfw |-> ZeroSoftware, found |-> FALSE, Age |-> A]

\* a plausible slip: a stale timestamp is deleted when it is found
CacheGetDropsStale(D, A, key, t) ==
    IF key \in DOMAIN A
    THEN IF t - A[key] > TTL
         THEN [sfw |-> ZeroSoftware, found |-> FALSE,
               Age |-> [k \in DOMAIN A \ {key} |-> A[k]]]
         ELSE IF key \in DOMAIN D
              THEN [sfw |-> D[key], found |-> TRUE, Age |-> A]
              ELSE [sfw |-> ZeroSoftware, found |-> FALSE, Age |-> A]
    ELSE IF key \in DOMAIN D
         THEN [sfw |-> D[key], found |-> TRUE, Age |-> MapPut(A, key, t)]
         ELSE [sfw |-> ZeroSoftware, found |-> FALSE, Age |-> A]

\* func (c *Cache) Get: [sfw, found, Age], Age the timestamp map afterwards
CacheGet(D, A, key, t) ==
    IF key \in DOMAIN A
    THEN IF t - A[key] > TTL
         THEN [sfw |-> ZeroSoftware, found |-> FALSE, Age |-> A]
         ELSE IF key \in DOMAIN D
              THEN [sfw |-> D[key], found |-> TRUE, Age |-> A]
              ELSE [sfw |-> ZeroSoftware, found |-> FALSE, Age |-> A]
    ELSE IF key \in DOMAIN D
         THEN [sfw |-> D[key], found |-> TRUE, Age |-> MapPut(A, key, t)]
         ELSE [sfw |-> ZeroSoftware, found |-> FALSE, Age |-> A]

\* a plausible slip: Set stamps a key only the first time
CacheSetKeepsAge(D, A, key, sfw, t) ==
    [Data |-> MapPut(D, key, sfw),
     Age |-> IF key \in DOMAIN A THEN A ELSE MapPut(A, key, t)]

\* a plausible slip: Set inserts but does not overwrite
CacheSetNoOverwrite(D, A, key, sfw, t) ==
    [Data |-> IF key \in DOMAIN D THEN D ELSE MapPut(D, key, sfw),
     Age |-> MapPut(A, key, t)]

\* func (c *Cache) Set: [Data, Age] afterwards
CacheSet(D, A, key, sfw, t) ==
    [Data |-> MapPut(D, key, sfw), Age |-> MapPut(A, key, t)]

\* ------------------------------------------------------------- discovery
\* nodeInfoRoute, lines 173-184: the loop over wk.Links.  The break leaves
\* the switch, not the loop, so every link is visited.
RECURSIVE ScanLinks(_, _)
ScanLinks(links, url) ==
    IF links = <<>> THEN url
    ELSE LET link == Head(links)
         IN  ScanLinks(Tail(links),
                       IF link.rel \in { Schema20, Schema21 } THEN link.href ELSE url)

\* a plausible slip: the href of the last link, whatever its rel
NodeInfoUrlAnyRel(wk) ==
    IF wk.links = <<>> THEN "" ELSE wk.links[Len(wk.links)].href

NodeInfoUrl(wk) == ScanLinks(wk.links, "")

\* the values nodeInfoUrl can have after the loop
NodeInfoUrls == { NodeInfoUrl(wk) : wk \in WellKnownNodeInfo }

\* ------------------------------------------------------------------ state
VARIABLES
    now,      \* time.Now()
    Data,     \* cache.Data: map[string]Software
    Age,      \* cache.Age: map[string]time.Time
    task,     \* per request handler: its position in nodeInfoRoute and its locals
    out,      \* the outcome of the request that returned last
    lastSet,  \* history: per domain, the value and time of the latest cache.Set call
    adopted,  \* history: per domain, the time of the cache.Get that found it without a timestamp
    seen,     \* history: the discovery document decoded last (kept by SpecDiscovery only)
    log,      \* history: per domain and time, the value cache.Set stored then (kept by SpecWindow only)
    sys       \* the process around the handlers: where main stands, the cache file, cancelled requests

vars == <<now, Data, Age, task, out, lastSet, adopted, seen, log, sys>>

EmptyMap == [x \in {} |-> 0]

\* a handler that is not running
IdleTask == [pc |-> "idle", input |-> <<>>, domain |-> <<>>, url |-> ""]

\* what a returning handler leaves behind: the error (named after the place
\* it comes from: "ParseForm" line 143, "ErrMissingParam" line 147,
\* "ErrBadRequest" line 151, "fetch" lines 166, 171, 188 and 195) or the
\* NodeInfo it encoded, and the history of the request (the form value, whether and when
\* cache.Get ran and what it found, the http.Get and cache.Set calls made)
Outcome(t, in, e, d, sfw, gets, hit, at, fetches, sets) ==
    [task |-> t, input |-> in, err |-> e,
     resp |-> [domain |-> d, software |-> sfw],
     gets |-> gets, hit |-> hit, at |-> at, fetches |-> fetches, sets |-> sets]

NoOutcome == Outcome("", <<>>, "none", <<>>, ZeroSoftware, 0, FALSE, 0, 0, 0)

\* the cache file, as json.Decoder reads it: ok is false for a file that is
\* missing, empty or cut short
NoFile == [ok |-> FALSE, data |-> EmptyMap]

\* the process while main waits for the interrupt (line 70): no request
\* cancelled, nothing written to the cache file yet.  snap is cache.Data as
\* it was when the encoder started on it, raced whether a cache.Set ran while
\* the encoder was reading it.  The other fields are history: boots counts
\* the restarts; via is, per domain, the form value of the request whose
\* cache.Set came last (kept by SpecForms only); carried are the domains
\* whose entries were stale when main last began to write the snapshot
Running ==
    [main |-> "serving", cancelled |-> {}, file |-> NoFile, boots |-> 0,
     snap |-> EmptyMap, raced |-> FALSE, carried |-> {}, via |-> EmptyMap]

\* main, lines 29-40: cache.Data is the decoded snapshot (or stays empty),
\* cache.Age is empty
Init ==
    /\ now = 0
    /\ \E S \in SUBSET Domains : Data \in [S -> Software]
    /\ Age = EmptyMap
    /\ task = [t \in Tasks |-> IdleTask]
    /\ out = NoOutcome
    /\ lastSet = EmptyMap
    /\ adopted = EmptyMap
    /\ seen = [links |-> <<>>]
    /\ log = EmptyMap
    /\ sys = Running

\* nodeInfoRoute, lines 142-144: r.ParseForm fails
BadForm(t) ==
    /\ task[t].pc = "idle"
    /\ sys.main = "serving"
    /\ t \notin sys.cancelled
    /\ out' = Outcome(t, <<>>, "ParseForm", <<>>, ZeroSoftware, 0, FALSE, 0, 0, 0)
    /\ UNCHANGED <<now, Data, Age, task, lastSet, adopted, seen, log, sys>>

\* a plausible slip: the handler fetches whatever the cache says
LookupIgnoresHit(t, in, d, g) ==
    /\ task' = [task EXCEPT ![t] = [pc |-> "hop1", input |-> in, domain |-> d, url |-> ""]]
    /\ UNCHANGED out

\* nodeInfoRoute, lines 161-164: if sfw, ok := cache.Get(domain); ok {...} else {...}
\* with g what cache.Get returned
Lookup(t, in, d, g) ==
    IF g.found
    THEN /\ out' = Outcome(t, in, "", d, g.sfw, 1, TRUE, now, 0, 0)
         /\ UNCHANGED task
    ELSE /\ task' = [task EXCEPT ![t] = [pc |-> "hop1", input |-> in, domain |-> d, url |-> ""]]
         /\ UNCHANGED out

\* nodeInfoRoute, lines 145-163 (and 201-206 on a hit): validation,
\* normalization, cache lookup.  The server takes requests until Shutdown
\* closes its listeners, and a connection whose request was cancelled takes
\* no further request.
Start(t) ==
    /\ task[t].pc = "idle"
    /\ sys.main = "serving"
    /\ t \notin sys.cancelled
    /\ \E in \in Inputs :
        LET u == UrlParse(in)
            d == Normalize(u)
            g == CacheGet(Data, Age, d, now)
        IN  IF in = <<>>
            THEN /\ out' = Outcome(t, in, "ErrMissingParam", <<>>, ZeroSoftware, 0, FALSE, 0, 0, 0)
                 /\ UNCHANGED <<Age, task, adopted>>
            ELSE IF u.err
            THEN /\ out' = Outcome(t, in, "ErrBadRequest", <<>>, ZeroSoftware, 0, FALSE, 0, 0, 0)
                 /\ UNCHANGED <<Age, task, adopted>>
            ELSE /\ Age' = g.Age
                 /\ Lookup(t, in, d, g)
                 /\ adopted' = IF g.found /\ d \notin DOMAIN Age
                               THEN MapPut(adopted, d, now) ELSE adopted
    /\ UNCHANGED <<now, Data, lastSet, seen, log, sys>>

\* nodeInfoRoute, lines 164-172: http.Get of the well-known document fails,
\* or its body does not decode
Hop1Fail(t) ==
    /\ task[t].pc = "hop1"
    /\ task' = [task EXCEPT ![t] = IdleTask]
    /\ out' = Outcome(t, task[t].input, "fetch", <<>>, ZeroSoftware, 1, FALSE, 0, 1, 0)
    /\ UNCHANGED <<now, Data, Age, lastSet, adopted, seen, log, sys>>

\* nodeInfoRoute, lines 185-186 (and 201-206 without a link): after the loop,
\* if len(nodeInfoUrl) > 0 the second fetch starts, otherwise the handler
\* answers with the zero Software
AfterScan(t, nodeInfoUrl) ==
    /\ IF nodeInfoUrl = ""
       THEN /\ task' = [task EXCEPT ![t] = IdleTask]
            /\ out' = Outcome(t, task[t].input, "", task[t].domain, ZeroSoftware, 1, FALSE, 0, 1, 0)
       ELSE /\ task' = [task EXCEPT ![t].pc = "hop2", ![t].url = nodeInfoUrl]
            /\ UNCHANGED out
    /\ UNCHANGED <<now, Data, Age, lastSet, adopted, log, sys>>

\* nodeInfoRoute, lines 164-186: the well-known document arrives and decodes;
\* net/http refuses a URL without a host, so the empty domain never gets here
Hop1Ok(t) ==
    /\ task[t].pc = "hop1"
    /\ task[t].domain # <<>>
    /\ \E nodeInfoUrl \in NodeInfoUrls : AfterScan(t, nodeInfoUrl)
    /\ UNCHANGED seen

\* the same step, with the decoded document kept in seen
Hop1OkSeen(t) ==
    /\ task[t].pc = "hop1"
    /\ task[t].domain # <<>>
    /\ \E wk \in WellKnownNodeInfo :
        /\ AfterScan(t, NodeInfoUrl(wk))
        /\ seen' = wk

\* a plausible slip: a failed second fetch drops the domain's cache entry
Hop2FailInvalidates(t) ==
    /\ task[t].pc = "hop2"
    /\ task' = [task EXCEPT ![t] = IdleTask]
    /\ out' = Outcome(t, task[t].input, "fetch", <<>>, ZeroSoftware, 1, FALSE, 0, 2, 0)
    /\ Data' = [k \in DOMAIN Data \ {task[t].domain} |-> Data[k]]
    /\ Age' = [k \in DOMAIN Age \ {task[t].domain} |-> Age[k]]
    /\ UNCHANGED <<now, lastSet, adopted, seen, log, sys>>

\* nodeInfoRoute, lines 186-196: http.Get(nodeInfoUrl) fails, or its body
\* does not decode
Hop2Fail(t) ==
    /\ task[t].pc = "hop2"
    /\ task' = [task EXCEPT ![t] = IdleTask]
    /\ out' = Outcome(t, task[t].input, "fetch", <<>>, ZeroSoftware, 1, FALSE, 0, 2, 0)
    /\ UNCHANGED <<now, Data, Age, lastSet, adopted, seen, log, sys>>

\* a plausible slip: the cache is written under the form value, not under
\* the normalized domain
Hop2DoneRawKey(t, sfw) ==
    LET c == CacheSet(Data, Age, task[t].input, sfw, now)
    IN  /\ task[t].pc = "hop2"
        /\ Data' = c.Data
        /\ Age' = c.Age
        /\ out' = Outcome(t, task[t].input, "", task[t].domain, sfw, 1, FALSE, 0, 2, 1)
        /\ lastSet' = MapPut(lastSet, task[t].domain, [val |-> sfw, at |-> now])
        /\ task' = [task EXCEPT ![t] = IdleTask]
        /\ UNCHANGED <<now, adopted, seen>>

\* nodeInfoRoute, lines 186-206: the versioned document arrives and decodes
\* to sfw; cache.Set, then the response
Hop2Done(t, sfw) ==
    LET c == CacheSet(Data, Age, task[t].domain, sfw, now)
    IN  /\ task[t].pc = "hop2"
        /\ Data' = c.Data
        /\ Age' = c.Age
        /\ out' = Outcome(t, task[t].input, "", task[t].domain, sfw, 1, FALSE, 0, 2, 1)
        /\ lastSet' = MapPut(lastSet, task[t].domain, [val |-> sfw, at |-> now])
        /\ task' = [task EXCEPT ![t] = IdleTask]
        /\ UNCHANGED <<now, adopted, seen>>

Hop2Ok(t) == \E sfw \in Software : Hop2Done(t, sfw) /\ UNCHANGED <<log, sys>>

\* the same step, with the form value of the request kept in sys.via
Hop2OkVia(t) ==
    \E sfw \in Software :
        /\ Hop2Done(t, sfw)
        /\ sys' = [sys EXCEPT !.via = MapPut(@, task[t].domain, task[t].input)]
        /\ UNCHANGED log

\* the same step, with the stored value kept in log
Hop2OkLogged(t) ==
    \E sfw \in Software :
        /\ Hop2Done(t, sfw)
        /\ log' = MapPut(log, <<task[t].domain, now>>, sfw)
        /\ UNCHANGED sys

\* time passes
Tick ==
    /\ now < MaxTime
    /\ now' = now + 1
    /\ UNCHANGED <<Data, Age, task, out, lastSet, adopted, seen, log, sys>>

Next ==
    \/ \E t \in Tasks : BadForm(t)
    \/ \E t \in Tasks : Start(t)
    \/ \E t \in Tasks : Hop1Fail(t)
    \/ \E t \in Tasks : Hop1Ok(t)
    \/ \E t \in Tasks : Hop2Fail(t)
    \/ \E t \in Tasks : Hop2Ok(t)
    \/ Tick

Spec == Init /\ [][Next]_vars

\* one handler at a time, at one instant, with the decoded discovery
\* document on record
NextDiscovery ==
    \/ Start("t1")
    \/ Hop1Fail("t1")
    \/ Hop1OkSeen("t1")
    \/ Hop2Fail("t1")
    \/ Hop2Ok("t1")

SpecDiscovery == Init /\ [][NextDiscovery]_vars

\* concurrent handlers as in Spec, with every stored value on record
NextWindow ==
    \/ \E t \in Tasks : Start(t)
    \/ \E t \in Tasks : Hop1Fail(t)
    \/ \E t \in Tasks : Hop1Ok(t)
    \/ \E t \in Tasks : Hop2Fail(t)
    \/ \E t \in Tasks : Hop2OkLogged(t)
    \/ Tick

InitWindow == Init /\ Data = EmptyMap

SpecWindow == InitWindow /\ [][NextWindow]_vars

\* concurrent handlers as in Spec, started on an empty cache, with the form
\* value behind every stored value on record
NextForms ==
    \/ \E t \in Tasks : Start(t)
    \/ \E t \in Tasks : Hop1Fail(t)
    \/ \E t \in Tasks : Hop1Ok(t)
    \/ \E t \in Tasks : Hop2Fail(t)
    \/ \E t \in Tasks : Hop2OkVia(t)
    \/ Tick

SpecForms == InitWindow /\ [][NextForms]_vars

\* ------------------------------------------------- cancellation, shutdown
\* The request context of handler t is cancelled (the client went away)
\* while it waits for a fetch.  nodeInfoRoute never reads r.Context(), and
\* http.Get (lines 164, 186) fetches without it: the handler goes on.
Cancel(t) ==
    /\ task[t].pc \in { "hop1", "hop2" }
    /\ t \notin sys.cancelled
    /\ sys' = [sys EXCEPT !.cancelled = @ \cup {t}]
    /\ UNCHANGED <<now, Data, Age, task, out, lastSet, adopted, seen, log>>

\* concurrent handlers as in Spec, started on an empty cache, whose requests
\* can be cancelled
NextCancel ==
    \/ \E t \in Tasks : Start(t)
    \/ \E t \in Tasks : Hop1Fail(t)
    \/ \E t \in Tasks : Hop1Ok(t)
    \/ \E t \in Tasks : Hop2Fail(t)
    \/ \E t \in Tasks : Hop2Ok(t)
    \/ \E t \in Tasks : Cancel(t)
    \/ Tick

SpecCancel == InitWindow /\ [][NextCancel]_vars

\* main, lines 68-72: the interrupt arrives; srv.Shutdown (line 75) closes
\* the listeners and waits for the running handlers
Interrupt ==
    /\ sys.main = "serving"
    /\ sys' = [sys EXCEPT !.main = "shutdown"]
    /\ UNCHANGED <<now, Data, Age, task, out, lastSet, adopted, seen, log>>

\* the domains whose entries are stale now (Cache.Get, line 221)
StaleEntries == { d \in DOMAIN Data \cap DOMAIN Age : now - Age[d] > TTL }

\* main, lines 41-46: main returns and the deferred function runs: os.Create
\* truncates the cache file, json.Encoder starts on cache.Data, without
\* cache.lock
BeginSave ==
    /\ sys' = [sys EXCEPT !.main = "encoding", !.file = NoFile,
                          !.snap = Data, !.raced = FALSE,
                          !.carried = StaleEntries]
    /\ UNCHANGED <<now, Data, Age, task, out, lastSet, adopted, seen, log>>

\* main, lines 75-78: srv.Shutdown returns nil, every handler has returned
ShutdownDone ==
    /\ sys.main = "shutdown"
    /\ \A t \in Tasks : task[t].pc = "idle"
    /\ BeginSave

\* main, lines 73-78: the one-minute context expires while a handler is
\* still waiting for a fetch; srv.Shutdown returns the error, which is logged
ShutdownTimeout ==
    /\ sys.main = "shutdown"
    /\ \E t \in Tasks : task[t].pc # "idle"
    /\ BeginSave

\* main, lines 46-50: the encoder is done and the process exits.  Without a
\* cache.Set in between the file holds cache.Data.  A cache.Set during the
\* iteration is a data race on the map: the file holds the map as it was
\* before or as it is after, or the runtime stops the process ("concurrent
\* map iteration and map write") and leaves the truncated file.
FinishSave ==
    /\ sys.main = "encoding"
    /\ \E f \in IF sys.raced
                 THEN { [ok |-> TRUE, data |-> sys.snap], [ok |-> TRUE, data |-> Data], NoFile }
                 ELSE { [ok |-> TRUE, data |-> Data] } :
        sys' = [sys EXCEPT !.main = "exited", !.file = f]
    /\ UNCHANGED <<now, Data, Age, task, out, lastSet, adopted, seen, log>>

\* the second fetch of a handler that outlived Shutdown returns: as Hop2Ok,
\* with a cache.Set under the encoder's eyes on record
Hop2OkRacing(t) ==
    \E sfw \in Software :
        /\ Hop2Done(t, sfw)
        /\ sys' = [sys EXCEPT !.raced = @ \/ sys.main = "encoding"]
        /\ UNCHANGED log

\* main, lines 19-40, in the next process: cache.Data is what the decoder
\* makes of the cache file (nothing, if it does not decode), cache.Age is
\* empty, no handler runs
Restart ==
    /\ sys.main = "exited"
    /\ sys.boots < MaxBoots
    /\ Data' = IF sys.file.ok THEN sys.file.data ELSE EmptyMap
    /\ Age' = EmptyMap
    /\ task' = [t \in Tasks |-> IdleTask]
    /\ out' = NoOutcome
    /\ lastSet' = EmptyMap
    /\ adopted' = EmptyMap
    /\ sys' = [sys EXCEPT !.main = "serving", !.boots = @ + 1, !.cancelled = {},
                          !.snap = EmptyMap, !.raced = FALSE]
    /\ UNCHANGED <<now, seen, log>>

\* the process has not exited: its goroutines run
Alive == sys.main # "exited"

\* srv.Shutdown returns within its minute (line 73) and the encoder is done
\* in less: next to the TTL of an hour, the clock stands still meanwhile
Steady == sys.main \in { "serving", "exited" }

\* concurrent handlers as in Spec, with main going through the interrupt,
\* the shutdown, the snapshot and the next start
NextShutdown ==
    \/ \E t \in Tasks : Start(t)
    \/ \E t \in Tasks : Alive /\ Hop1Fail(t)
    \/ \E t \in Tasks : Alive /\ Hop1Ok(t)
    \/ \E t \in Tasks : Alive /\ Hop2Fail(t)
    \/ \E t \in Tasks : Alive /\ Hop2OkRacing(t)
    \/ Steady /\ Tick
    \/ Interrupt
    \/ ShutdownDone
    \/ ShutdownTimeout
    \/ FinishSave
    \/ Restart

SpecShutdown == InitWindow /\ [][NextShutdown]_vars

\* ServeHTTP, lines 89-100, and RespondError, lines 106-120: the status
\* code the boundary answers an outcome with
HttpStatus(e) ==
    IF e = "" THEN 200
    ELSE IF e \in { "ErrMissingParam", "ErrBadRequest" } THEN 400
    ELSE 500

\* ----------------------------------------------------------- properties
\* the step in which handler t calls cache.Get and misses: it starts hop 1
GetMiss(t) == task[t].pc = "idle" /\ task'[t].pc = "hop1"

\* the step in which handler t calls cache.Get and hits: it answers at once
GetHit(t) ==
    /\ task' = task
    /\ now' = now
    /\ sys' = sys
    /\ out'.task = t
    /\ out'.hit
    /\ out'.at = now

HasRel(wk, rel) == \E i \in 1..Len(wk.links) : wk.links[i].rel = rel

Hrefs(wk, rel) == { wk.links[i].href : i \in { j \in 1..Len(wk.links) : wk.links[j].rel = rel } }

\* C1: when the discovery document has a schema-2.1 link, hop 2 fetches the
\* href of a 2.1 link, wherever the links stand; the href of a 2.0 link is
\* fetched only when the document has no 2.1 link.
C1_Prefers21 ==
    task["t1"].pc = "hop2" =>
        IF HasRel(seen, Schema21)
        THEN task["t1"].url \in Hrefs(seen, Schema21)
        ELSE task["t1"].url \in Hrefs(seen, Schema20)

\* C2: after Set(d, v) at t0 and no later Set(d, .), a Get(d) at time t hits
\* with v when t - t0 <= TTL (TTL included) and misses when t - t0 > TTL.
C2_TTLExpiry ==
    [][\A t \in Tasks :
        /\ GetHit(t) =>
            LET d == out'.resp.domain
            IN  d \in DOMAIN lastSet =>
                    /\ now - lastSet[d].at <= TTL
                    /\ out'.resp.software = lastSet[d].val
        /\ GetMiss(t) =>
            LET d == task'[t].domain
            IN  d \in DOMAIN lastSet => now - lastSet[d].at > TTL]_vars

\* a Get exactly TTL after the Set hit, and a later one missed
C2_Witness ==
    /\ out.hit
    /\ out.resp.domain \in DOMAIN lastSet
    /\ out.at - lastSet[out.resp.domain].at = TTL
    /\ out.resp.software = lastSet[out.resp.domain].val
    /\ out.resp.software # ZeroSoftware
    /\ \E t \in Tasks :
        /\ task[t].pc = "hop1"
        /\ task[t].domain = out.resp.domain
        /\ now - lastSet[out.resp.domain].at > TTL

\* C3: an entry d -> v loaded from the snapshot has no timestamp; the first
\* Get(d), at t1, hits with v and records t1 as its timestamp; with no Set(d, .)
\* in between, a Get(d) more than TTL after t1 misses.
C3_LazyAdoption ==
    [][\A t \in Tasks :
        /\ GetHit(t) =>
            LET d == out'.resp.domain
            IN  /\ (d \in DOMAIN Data /\ d \notin DOMAIN Age) =>
                        /\ out'.resp.software = Data[d]
                        /\ d \in DOMAIN Age'
                        /\ Age'[d] = now
                /\ (d \in DOMAIN adopted /\ d \notin DOMAIN lastSet) =>
                        now - adopted[d] <= TTL
        /\ GetMiss(t) =>
            LET d == task'[t].domain
            IN  ~(d \in DOMAIN Data /\ d \notin DOMAIN Age)]_vars

\* an adopted entry that was never Set has gone stale and a Get missed it
C3_Witness ==
    \E t \in Tasks :
        LET d == task[t].domain
        IN  /\ task[t].pc = "hop1"
            /\ d \in DOMAIN adopted
            /\ d \notin DOMAIN lastSet
            /\ now - adopted[d] > TTL
            /\ d \in DOMAIN Data

\* C4: a Get(d) at the very time of the latest Set(d, v) hits with v,
\* whatever the cache held for d before that Set.
C4_SetThenGet ==
    [][\A t \in Tasks :
        /\ GetMiss(t) =>
            LET d == task'[t].domain
            IN  ~(d \in DOMAIN lastSet /\ lastSet[d].at = now)
        /\ GetHit(t) =>
            LET d == out'.resp.domain
            IN  (d \in DOMAIN lastSet /\ lastSet[d].at = now) =>
                    out'.resp.software = lastSet[d].val]_vars

\* the Set overwrote an entry that was adopted and had gone stale, and the
\* Get at the same instant hit
C4_Witness ==
    LET d == out.resp.domain
    IN  /\ out.hit
        /\ d \in DOMAIN lastSet
        /\ lastSet[d].at = out.at
        /\ out.resp.software = lastSet[d].val
        /\ d \in DOMAIN adopted
        /\ lastSet[d].at - adopted[d] > TTL

\* C5: a request that went through both hops answers with the identity the
\* second document reported and with the normalized domain, and has stored
\* that identity under the normalized domain: a Get at that instant hits
\* with it.
C5_FullSuccess ==
    out.sets = 1 =>
        LET d == out.resp.domain
        IN  /\ out.err = ""
            /\ out.fetches = 2
            /\ d = Normalize(UrlParse(out.input))
            /\ d \in DOMAIN lastSet
            /\ out.resp.software = lastSet[d].val
            /\ LET g == CacheGet(Data, Age, d, lastSet[d].at)
               IN  g.found /\ g.sfw = out.resp.software

\* a full resolution of "h://m/p" that wrote over an entry adopted from the snapshot
C5_Witness ==
    /\ out.sets = 1
    /\ out.input = <<"h", ":", "/", "/", "m", "/", "p">>
    /\ out.resp.domain = <<"m">>
    /\ out.resp.software = [name |-> "mastodon", version |-> "4.2.0"]
    /\ <<"m">> \in DOMAIN adopted
    /\ Data[<<"m">>] = out.resp.software

\* the step in which hop 1 of handler t delivers a decoded document
Hop1Decoded(t) ==
    /\ task[t].pc = "hop1"
    /\ \/ task'[t].pc = "hop2"
       \/ task'[t].pc = "idle" /\ out'.err = ""

\* C6: a discovery document with neither a 2.0 nor a 2.1 link makes the
\* request succeed with the empty identity, without a second fetch and
\* without touching the cache.
C6_NoVersionedLink ==
    [][(Hop1Decoded("t1") /\ ~HasRel(seen', Schema20) /\ ~HasRel(seen', Schema21)) =>
            /\ task'["t1"].pc = "idle"
            /\ out'.err = ""
            /\ out'.resp = [domain |-> task["t1"].domain, software |-> ZeroSoftware]
            /\ out'.fetches = 1
            /\ out'.sets = 0
            /\ Data' = Data
            /\ Age' = Age]_vars

\* a document with links, none of them versioned, answered with the empty identity
C6_Witness ==
    /\ task["t1"].pc = "idle"
    /\ out.err = ""
    /\ out.fetches = 1
    /\ out.sets = 0
    /\ out.resp.software = ZeroSoftware
    /\ Len(seen.links) = 2
    /\ ~HasRel(seen, Schema20)
    /\ ~HasRel(seen, Schema21)
    /\ out.resp.domain \notin DOMAIN Data

\* C7: a handler starts a fetch only when cache.Get reported a miss; on a
\* hit it answers with the cached identity, fetches nothing and sets nothing.
C7_FetchOnlyOnMiss ==
    [][\A t \in Tasks :
        /\ GetMiss(t) => ~CacheGet(Data, Age, task'[t].domain, now).found
        /\ GetHit(t) =>
            /\ out'.fetches = 0
            /\ out'.sets = 0
            /\ out'.err = ""
            /\ out'.resp.domain \in DOMAIN Data
            /\ out'.resp.software = Data[out'.resp.domain]
            /\ Data' = Data
            /\ lastSet' = lastSet]_vars

\* a hit answered from the cache while no handler is fetching
C7_Witness ==
    /\ out.hit
    /\ out.fetches = 0
    /\ out.resp.software = [name |-> "pleroma", version |-> "2.6.0"]
    /\ \A t \in Tasks : task[t].pc = "idle"

\* the times at which a Set of domain d is on record
SetTimes(d) == { k[2] : k \in { j \in DOMAIN log : j[1] = d } }

\* C8 as stated: once a resolution has fetched and written the cache for a
\* domain at t0, no handler that looks the domain up within TTL of t0 starts
\* a fetch, and each answers with the identity stored at t0.
C8_OneFetchPerWindow ==
    [][\A t \in Tasks : \A k \in DOMAIN log :
        /\ (GetMiss(t) /\ task'[t].domain = k[1]) => now - k[2] > TTL
        /\ (GetHit(t) /\ out'.resp.domain = k[1] /\ now - k[2] <= TTL) =>
                out'.resp.software = log[k]]_vars

\* C8 as amended: once a resolution has fetched and written the cache for a
\* domain at t0, no handler that looks the domain up within TTL of t0 starts
\* a fetch, and each answers with the identity of the latest Set of that
\* domain (a handler that had missed before t0 may have written after t0).
C8_WindowLatest ==
    [][\A t \in Tasks : \A k \in DOMAIN log :
        /\ (GetMiss(t) /\ task'[t].domain = k[1]) => now - k[2] > TTL
        /\ (GetHit(t) /\ out'.resp.domain = k[1] /\ now - k[2] <= TTL) =>
                LET latest == CHOOSE x \in SetTimes(k[1]) : \A y \in SetTimes(k[1]) : y <= x
                IN  out'.resp.software = log[<<k[1], latest>>]]_vars

\* two racing resolutions stored different identities at different times, and
\* a lookup within TTL of both was answered from the cache with the later one
C8_Witness ==
    LET d == out.resp.domain
    IN  /\ out.hit
        /\ \E t0, t1 \in SetTimes(d) :
            /\ t0 < t1
            /\ t1 <= out.at
            /\ out.at - t0 <= TTL
            /\ log[<<d, t0>>] # log[<<d, t1>>]
            /\ out.resp.software = log[<<d, t1>>]
            /\ \A y \in SetTimes(d) : y <= t1

\* C9: a handler that leaves hop 1 or hop 2 with an error has called no Set
\* and leaves both cache maps as they were, as did its lookup: an entry the
\* domain had, fresh or stale, keeps its value and its timestamp.
C9_FailureKeepsCache ==
    [][\A t \in Tasks :
        /\ (task[t].pc \in { "hop1", "hop2" } /\ task'[t].pc = "idle" /\ out'.err # "") =>
                /\ out'.err = "fetch"
                /\ out'.task = t
                /\ out'.sets = 0
                /\ Data' = Data
                /\ Age' = Age
                /\ lastSet' = lastSet
        /\ GetMiss(t) => (Data' = Data /\ Age' = Age)]_vars

\* hop 2 failed for a domain whose stale entry is still in both maps
C9_Witness ==
    LET d == Normalize(UrlParse(out.input))
    IN  /\ out.err = "fetch"
        /\ out.fetches = 2
        /\ d \in DOMAIN Data
        /\ d \in DOMAIN Age
        /\ d \in DOMAIN lastSet
        /\ Age[d] = lastSet[d].at
        /\ Data[d] = lastSet[d].val
        /\ now - Age[d] > TTL

\* the modelled form values url.Parse rejects: ":m" (missing protocol
\* scheme), "%" (invalid URL escape), "h://m:p" (invalid port)
Unparseable ==
    { <<":", "m">>, <<"%">>, <<"h", ":", "/", "/", "m", ":", "p">> }

\* C10: an empty form value ends in ErrMissingParam and one that url.Parse
\* rejects in ErrBadRequest, and only those; both are answered with another
\* status than a fetch error, and such a request makes no cache lookup, no
\* fetch and no Set.
C10_InputErrors ==
    /\ out.err \notin { "none", "ParseForm" } =>
        /\ out.input = <<>> <=> out.err = "ErrMissingParam"
        /\ out.input \in Unparseable <=> out.err = "ErrBadRequest"
        /\ out.err \in { "ErrMissingParam", "ErrBadRequest" } =>
            /\ out.gets = 0
            /\ out.fetches = 0
            /\ out.sets = 0
            /\ HttpStatus(out.err) # HttpStatus("fetch")
    /\ \A t \in Tasks :
        task[t].pc # "idle" => task[t].input \notin Unparseable \cup { <<>> }

\* ":m" was rejected although the cache holds an entry for "m"
C10_Witness ==
    /\ out.input = <<":", "m">>
    /\ out.err = "ErrBadRequest"
    /\ out.gets = 0
    /\ <<"m">> \in DOMAIN Data
    /\ <<"m">> \notin DOMAIN Age

\* "m" and "h://m/p": the same host without and with a scheme and a path
Forms == { <<"m">>, <<"h", ":", "/", "/", "m", "/", "p">> }

\* C11: "h://m/p" (scheme, host, path) normalizes to its host "m" and the
\* bare "m" to itself, so both forms use the cache key "m": once a request
\* in either form has stored an identity, a lookup through either form
\* within TTL is a hit with that identity.
C11_SameKey ==
    [][\A t \in Tasks :
        /\ (task'[t].pc # "idle" /\ task'[t].input \in Forms) => task'[t].domain = <<"m">>
        /\ (GetHit(t) /\ out'.input \in Forms) =>
                /\ out'.resp.domain = <<"m">>
                /\ <<"m">> \in DOMAIN sys.via => out'.resp.software = lastSet[<<"m">>].val
        /\ (GetMiss(t) /\ task'[t].input \in Forms) =>
                ~(/\ <<"m">> \in DOMAIN sys.via
                  /\ sys.via[<<"m">>] \in Forms
                  /\ now - lastSet[<<"m">>].at <= TTL)]_vars

\* a request for "m" stored an identity and a request for "h://m/p" was
\* answered with it from the cache
C11_Witness ==
    /\ out.hit
    /\ out.input = <<"h", ":", "/", "/", "m", "/", "p">>
    /\ out.resp.domain = <<"m">>
    /\ <<"m">> \in DOMAIN sys.via
    /\ sys.via[<<"m">>] = <<"m">>
    /\ out.resp.software = lastSet[<<"m">>].val
    /\ out.resp.software # ZeroSoftware

\* C12: on a cache started without a snapshot, a Get of a domain that was
\* never Set misses, and leaves both maps without an entry for it.
C12_AbsentMisses ==
    [][\A t \in Tasks :
        /\ GetHit(t) => out'.resp.domain \in DOMAIN lastSet
        /\ (GetMiss(t) /\ task'[t].domain \notin DOMAIN lastSet) =>
                /\ Data' = Data
                /\ Age' = Age
                /\ task'[t].domain \notin DOMAIN Data'
                /\ task'[t].domain \notin DOMAIN Age'
                /\ CacheGet(Data, Age, task'[t].domain, now).sfw = ZeroSoftware]_vars

\* a lookup of "m" missed on a cache that never held it
C12_Witness ==
    \E t \in Tasks :
        /\ task[t].pc = "hop1"
        /\ task[t].domain = <<"m">>
        /\ <<"m">> \notin DOMAIN lastSet
        /\ <<"m">> \notin DOMAIN Data
        /\ <<"m">> \notin DOMAIN Age
        /\ now > 0

\* C15: handlers racing for one domain each fetch and each Set; at any time
\* the entry holds the value and the timestamp of the Set that ran last,
\* never the value of one Set with the timestamp of another.
C15_LastSetWins ==
    \A d \in DOMAIN lastSet :
        /\ d \in DOMAIN Data
        /\ d \in DOMAIN Age
        /\ Data[d] = lastSet[d].val
        /\ Age[d] = lastSet[d].at
        /\ <<d, Age[d]>> \in DOMAIN log
        /\ log[<<d, Age[d]>>] = Data[d]

\* two handlers fetched within one TTL window and stored different
\* identities; both have returned and the entry is that of the later Set
C15_Witness ==
    /\ \A t \in Tasks : task[t].pc = "idle"
    /\ \E d \in DOMAIN Data :
        \E t0, t1 \in SetTimes(d) :
            /\ t0 < t1
            /\ t1 - t0 <= TTL
            /\ log[<<d, t0>>] # log[<<d, t1>>]
            /\ Data[d] = log[<<d, t1>>]
            /\ Age[d] = t1

\* C16: a Get changes no stored value, and changes a timestamp only when the
\* entry has none (it is then stamped with the time of the Get): a hit on a
\* fresh entry and a miss on a stale one leave both maps as they were.
C16_GetFrame ==
    [][\A t \in Tasks :
        (GetHit(t) \/ GetMiss(t)) =>
            LET d == IF GetMiss(t) THEN task'[t].domain ELSE out'.resp.domain
            IN  /\ Data' = Data
                /\ IF d \in DOMAIN Data /\ d \notin DOMAIN Age
                   THEN Age' = MapPut(Age, d, now)
                   ELSE Age' = Age]_vars

\* a hit later than the entry's timestamp, which is still that of the Set
C16_Witness ==
    LET d == out.resp.domain
    IN  /\ out.hit
        /\ d \in DOMAIN lastSet
        /\ out.at = now
        /\ out.at > lastSet[d].at
        /\ Age[d] = lastSet[d].at
        /\ Data[d] = lastSet[d].val

\* entry d has a timestamp older than TTL
Stale(d) == d \in DOMAIN Age /\ now - Age[d] > TTL

\* C17: a stale entry stays stale until a Set of its domain: no step other
\* than that Set makes it fresh again, and no Get of a stale entry hits.
C17_StaleStaysStale ==
    [][/\ \A d \in Domains :
            (Stale(d) /\ (d \in DOMAIN lastSet' => (d \in DOMAIN lastSet /\ lastSet'[d] = lastSet[d]))) =>
                (d \in DOMAIN Age' /\ now' - Age'[d] > TTL)
       /\ \A t \in Tasks : GetHit(t) => ~Stale(out'.resp.domain)]_vars

\* two lookups in a row missed the same stale entry
C17_Witness ==
    \E d \in DOMAIN Data :
        /\ Stale(d)
        /\ \A t \in Tasks : task[t].pc = "hop1" /\ task[t].domain = d

\* C19 as stated: a handler that is past validation, at the cache lookup or
\* in a fetch, has a non-empty normalized domain.
C19_NonEmptyDomain ==
    /\ \A t \in Tasks : task[t].pc # "idle" => task[t].domain # <<>>
    /\ out.gets = 1 => Normalize(UrlParse(out.input)) # <<>>

\* C20: every key with a timestamp has a stored value.
C20_AgeWithinData == DOMAIN Age \subseteq DOMAIN Data

\* one entry was adopted from the snapshot and then Set, another came from
\* the snapshot and was never read
C20_Witness ==
    /\ \E d \in DOMAIN Age : d \in DOMAIN lastSet /\ d \in DOMAIN adopted
    /\ \E d \in DOMAIN Data : d \notin DOMAIN Age

\* C13 as stated: every access to the maps is made under cache.lock, so no
\* two tasks are at the maps at once: while main reads cache.Data for the
\* snapshot, no handler is in Get or Set.
C13_MapsUnderLock ==
    [][sys.main = "encoding" =>
            /\ Data' = Data
            /\ Age' = Age
            /\ \A t \in Tasks : ~GetHit(t) /\ ~GetMiss(t)]_vars

\* C14 as stated: once its request is cancelled, a handler changes nothing
\* in the cache: it returns without calling Set.
C14_CancelledNoSet ==
    [][\A t \in Tasks :
        (t \in sys.cancelled /\ task'[t] # task[t]) =>
            /\ Data' = Data
            /\ Age' = Age
            /\ lastSet' = lastSet]_vars

\* C18 as stated: an entry that is stale when the process writes its snapshot
\* is in the written file, and in the next process the first Get of its
\* domain hits with the stored value, so that no fetch starts.
C18_StaleSurvivesRestart ==
    [][/\ sys'.main = "exited" =>
            \A d \in sys'.carried : sys'.file.ok /\ d \in DOMAIN sys'.file.data
       /\ \A t \in Tasks :
            /\ (GetMiss(t) /\ sys.boots > 0 /\ task'[t].domain \notin DOMAIN lastSet) =>
                    task'[t].domain \notin sys.carried
            /\ (GetHit(t) /\ sys.boots > 0 /\ out'.resp.domain \in sys.carried) =>
                    out'.resp.software = Data[out'.resp.domain]]_vars

====
